---- MODULE Spec2Model ----
(***************************************************************************)
(* pinionCoin: CryptoBlock (hash, proof of work) and CryptoBlockchain      *)
(* (genesis, append with mining, validity scan), src/chain.js, and the     *)
(* construction of the chain by its driver, src/mining.js.                 *)
(*                                                                         *)
(* JavaScript strings are sequences of one-character strings.  Block       *)
(* objects live in a heap (a sequence of records) and the chain holds      *)
(* references (heap positions), so that one object can be reached from     *)
(* several places, as in the program.                                      *)
(***************************************************************************)
EXTENDS Integers, Sequences, FiniteSets

\* ------------------------------------------------------------------ bounds
MaxBlocks == 2      \* blocks the caller constructs
MaxChain == 3       \* length of the chain
MaxNonce == 8       \* iterations of the mining loop that are followed

\* ------------------------------------------------------------- SHA256 model
\* crypto-js SHA256(...).toString(): a fixed-length digest string.  The digest
\* is modelled by DigestLen characters, each "0" or "1", of a polynomial hash
\* with a final multiplication, so that successive nonces give scattered values.
DigestLen == 5
HashMul == 11
HashMod == 32
HashSeed == 14
HashFinal == 5

Alphabet ==
  << "0", "1", "2", "3", "4", "5", "6", "7", "8", "9", " ", "/", "\"",
     "u", "n", "d", "e", "f", "i", "A", "B", "I", "t", "a", "l", "o", "c",
     "k", "h", "C" >>

\* The code of each character of the alphabet: its position.
CodeTable ==
  [c \in {Alphabet[i] : i \in 1..Len(Alphabet)} |->
     CHOOSE i \in 1..Len(Alphabet) : Alphabet[i] = c]

Code(c) == CodeTable[c]

\* The hash state after the characters of s, starting from h (s is bound to
\* t so that it is evaluated once).
Absorb(h, s) ==
  LET Fold(t) ==
        LET f[k \in 0..Len(t)] ==
              IF k = 0 THEN h
              ELSE (f[k - 1] * HashMul + Code(t[k])) % HashMod
        IN  f[Len(t)]
  IN  CHOOSE v \in {Fold(t) : t \in {s}} : TRUE

RECURSIVE Pow2(_)
Pow2(n) == IF n = 0 THEN 1 ELSE 2 * Pow2(n - 1)

\* The digest string of each value: its DigestLen binary digits.
DigestTable ==
  [v \in 0..(HashMod - 1) |->
     [i \in 1..DigestLen |->
        IF (v \div Pow2(DigestLen - i)) % 2 = 0 THEN "0" ELSE "1"]]

Digest(v) == DigestTable[v]

SHA256(s) == Digest((Absorb(HashSeed, s) * HashFinal) % HashMod)

\* ------------------------------------------------------- JavaScript values
\* The value of a property that has not been assigned yet.
Undefined == -1

Digits == << "0", "1", "2", "3", "4", "5", "6", "7", "8", "9" >>

\* String(n) for a non-negative integer.
RECURSIVE NumberToString(_)
NumberToString(n) ==
  IF n < 10 THEN << Digits[n + 1] >>
  ELSE NumberToString(n \div 10) \o << Digits[(n % 10) + 1] >>

\* The string a value becomes as an operand of string +.
ToString(v) ==
  IF v = Undefined THEN << "u", "n", "d", "e", "f", "i", "n", "e", "d" >>
  ELSE NumberToString(v)

\* JSON.stringify of a string without characters to escape.
JSONstringify(data) == << "\"" >> \o data \o << "\"" >>

\* s.substring(0, n)
substring(s, n) == SubSeq(s, 1, IF n < Len(s) THEN n ELSE Len(s))

\* Array(n + 1).join("0"): n characters "0".
ArrayJoinZero(n) == [i \in 1..n |-> "0"]

\* x !== y on tagged values: different types are never equal.
StrictNotEqual(x, y) == x.type # y.type \/ x.val # y.val

StringValue(s) == [type |-> "string", val |-> s]
\* A method read without being called: the function object itself.
MethodValue(name) == [type |-> "function", val |-> << name >>]

\* ------------------------------------------------------------ caller inputs
Indexes == {1, 2}
Timestamps == { << "0", "1", "/", "0", "1", "/", "2", "0", "2", "0" >> }
Datas == { << "A" >>, << "B" >> }
DefaultPrecedingHash == << " " >>
TamperTimestamp == << "0", "1", "/", "0", "2", "/", "2", "0", "2", "0" >>
Difficulties == {0, 2, DigestLen + 1}

VARIABLES
  heap,           \* the block objects, by reference
  blockchain,     \* this.blockchain: references into heap
  difficulty,     \* this.difficulty
  pc,             \* "idle", or the method whose mining loop is running
  curDifficulty,  \* the argument of the running proofOfWork
  lastOp,         \* the operation that returned last
  arg,            \* the block the running or last operation is about
  result,         \* the value the last operation returned
  preTailHash,    \* hash of the tail when the last addNewBlock was called
  preLength,      \* length of the chain when the last addNewBlock was called
  pre,            \* the block arg as it was when the operation on it began
  fresh,          \* blocks untouched since their construction
  onlyFresh,      \* every addNewBlock so far was given a fresh block
  noAlias,        \* no addNewBlock so far was given a member of the chain
  tamper          \* "none", or the kind of in-place change the caller made

vars ==
  << heap, blockchain, difficulty, pc, curDifficulty,
     lastOp, arg, result, preTailHash, preLength, pre, fresh, onlyFresh,
     noAlias, tamper >>

\* -------------------------------------------------------------- CryptoBlock
\* The string computeHash passes to SHA256.
hashInput(b) ==
  ToString(b.index) \o b.precedingHash \o b.timestamp
    \o JSONstringify(b.data) \o ToString(b.nonce)

computeHash(b) == SHA256(hashInput(b))

\* new CryptoBlock(index, timestamp, data, precedingHash): the assignments in
\* the constructor's order; hash is computed while nonce is still unassigned.
CryptoBlock(index, timestamp, data, precedingHash) ==
  LET b0 == [index |-> index, timestamp |-> timestamp, data |-> data,
             precedingHash |-> precedingHash, hash |-> << >>,
             nonce |-> Undefined]
      b1 == [b0 EXCEPT !.hash = computeHash(b0)]
  IN  [b1 EXCEPT !.nonce = 0]

\* The loop condition with one character too few compared on both sides.
proofOfWorkCondition_OffByOne(b, d) ==
  substring(b.hash, d - 1) # ArrayJoinZero(d - 1)

\* The loop condition of proofOfWork.
proofOfWorkCondition(b, d) == substring(b.hash, d) # ArrayJoinZero(d)

\* The loop body advancing index where it should advance nonce.
proofOfWorkBody_IncrementIndex(b) ==
  LET b1 == [b EXCEPT !.index = b.index + 1]
  IN  [b1 EXCEPT !.hash = computeHash(b1)]

\* The loop body without the recomputation of the hash.
proofOfWorkBody_NoRehash(b) == [b EXCEPT !.nonce = b.nonce + 1]

\* The loop body with the nonce advanced by two.
proofOfWorkBody_SkipTwo(b) ==
  LET b1 == [b EXCEPT !.nonce = b.nonce + 2]
  IN  [b1 EXCEPT !.hash = computeHash(b1)]

\* One iteration of the loop body of proofOfWork.
proofOfWorkBody(b) ==
  LET b1 == [b EXCEPT !.nonce = b.nonce + 1]
  IN  [b1 EXCEPT !.hash = computeHash(b1)]

\* --------------------------------------------------------- CryptoBlockchain
\* The genesis block built without its precedingHash argument.
startGenesisBlock_NoSentinel ==
  CryptoBlock(0,
    << "0", "1", "/", "0", "1", "/", "2", "0", "2", "0" >>,
    << "I", "n", "i", "t", "i", "a", "l", " ", "B", "l", "o", "c", "k", " ",
       "i", "n", " ", "t", "h", "e", " ", "C", "h", "a", "i", "n" >>,
    DefaultPrecedingHash)

startGenesisBlock ==
  CryptoBlock(0,
    << "0", "1", "/", "0", "1", "/", "2", "0", "2", "0" >>,
    << "I", "n", "i", "t", "i", "a", "l", " ", "B", "l", "o", "c", "k", " ",
       "i", "n", " ", "t", "h", "e", " ", "C", "h", "a", "i", "n" >>,
    << "0" >>)

\* The value the constructor assigns to this.difficulty.
ConstructedDifficulty == 4

\* The argument the driver constructs the chain with.
DifficultyArgument == 5

\* The first element returned instead of the last.
obtainLatestBlock_First(chain) == chain[1]

obtainLatestBlock(chain) == chain[Len(chain)]

\* The scan without the comparison of the stored hash.
checkChainValidity_LinkOnly(h, chain) ==
  \A i \in 2..Len(chain) :
    ~(h[chain[i]].precedingHash # h[chain[i - 1]].hash)

\* The scan stopping one block early.
checkChainValidity_SkipLast(h, chain) ==
  \A i \in 2..(Len(chain) - 1) :
    /\ ~StrictNotEqual(StringValue(h[chain[i]].hash),
                       MethodValue("computeHash"))
    /\ ~(h[chain[i]].precedingHash # h[chain[i - 1]].hash)

\* The scan with a test of the genesis block's index added.
checkChainValidity_GenesisIndex(h, chain) ==
  /\ h[chain[1]].index = 0
  /\ \A i \in 2..Len(chain) :
       /\ ~StrictNotEqual(StringValue(h[chain[i]].hash),
                          MethodValue("computeHash"))
       /\ ~(h[chain[i]].precedingHash # h[chain[i - 1]].hash)

\* The scan starting at the genesis block.
checkChainValidity_FromZero(h, chain) ==
  \A i \in 1..Len(chain) :
    /\ ~StrictNotEqual(StringValue(h[chain[i]].hash),
                       MethodValue("computeHash"))
    /\ i > 1 => ~(h[chain[i]].precedingHash # h[chain[i - 1]].hash)

checkChainValidity(h, chain) ==
  \A i \in 2..Len(chain) :
    LET currentBlock == h[chain[i]]
        precedingBlock == h[chain[i - 1]]
    IN  /\ ~StrictNotEqual(StringValue(currentBlock.hash),
                           MethodValue("computeHash"))
        /\ ~(currentBlock.precedingHash # precedingBlock.hash)

Members == {blockchain[i] : i \in 1..Len(blockchain)}

Init ==
  /\ heap = << startGenesisBlock >>
  /\ blockchain = << 1 >>
  /\ difficulty = ConstructedDifficulty
  /\ pc = "idle"
  /\ curDifficulty = 0
  /\ lastOp = "CryptoBlockchain"
  /\ arg = 1
  /\ result = "none"
  /\ preTailHash = << >>
  /\ preLength = 0
  /\ pre = startGenesisBlock
  /\ fresh = {}
  /\ onlyFresh = TRUE
  /\ noAlias = TRUE
  /\ tamper = "none"

\* The caller constructs a block.
NewCryptoBlock ==
  /\ pc = "idle" /\ tamper = "none"
  /\ Len(heap) < 1 + MaxBlocks
  /\ \E index \in Indexes, timestamp \in Timestamps, data \in Datas :
       /\ heap' = Append(heap,
                    CryptoBlock(index, timestamp, data, DefaultPrecedingHash))
       /\ pre' = CryptoBlock(index, timestamp, data, DefaultPrecedingHash)
  /\ fresh' = fresh \cup {Len(heap) + 1}
  /\ lastOp' = "CryptoBlock"
  /\ arg' = Len(heap) + 1
  /\ result' = "none"
  /\ UNCHANGED << blockchain, difficulty, pc, curDifficulty,
                  preTailHash, preLength, onlyFresh, noAlias, tamper >>

\* addNewBlock(newBlock), up to the call of proofOfWork.
AddNewBlock ==
  /\ pc = "idle" /\ tamper = "none"
  /\ Len(blockchain) < MaxChain
  /\ \E newBlock \in 1..Len(heap) :
       /\ heap' = [heap EXCEPT ![newBlock].precedingHash =
                                  heap[obtainLatestBlock(blockchain)].hash]
       /\ arg' = newBlock
       /\ pre' = heap[newBlock]
       /\ onlyFresh' = (onlyFresh /\ newBlock \in fresh)
       /\ noAlias' = (noAlias /\ newBlock \notin Members)
       /\ fresh' = fresh \ {newBlock}
  /\ curDifficulty' = difficulty
  /\ pc' = "addNewBlock"
  /\ lastOp' = "none"
  /\ result' = "none"
  /\ preTailHash' = heap[blockchain[Len(blockchain)]].hash
  /\ preLength' = Len(blockchain)
  /\ UNCHANGED << blockchain, difficulty, tamper >>

\* The caller calls proofOfWork(d) on a block it holds.
ProofOfWork ==
  /\ pc = "idle" /\ tamper = "none"
  /\ \E b \in (1..Len(heap)) \ Members, d \in Difficulties :
       /\ arg' = b
       /\ pre' = heap[b]
       /\ curDifficulty' = d
       /\ fresh' = fresh \ {b}
  /\ pc' = "proofOfWork"
  /\ lastOp' = "none"
  /\ result' = "none"
  /\ UNCHANGED << heap, blockchain, difficulty, preTailHash,
                  preLength, onlyFresh, noAlias, tamper >>

\* One iteration of the mining loop.
ProofOfWorkStep ==
  /\ pc \in {"addNewBlock", "proofOfWork"}
  /\ proofOfWorkCondition(heap[arg], curDifficulty)
  /\ heap[arg].nonce < MaxNonce
  /\ heap' = [heap EXCEPT ![arg] = proofOfWorkBody(heap[arg])]
  /\ UNCHANGED << blockchain, difficulty, pc, curDifficulty,
                  lastOp, arg, result, preTailHash, preLength, pre, fresh,
                  onlyFresh, noAlias, tamper >>

\* proofOfWork called by the caller returns.
ProofOfWorkReturn ==
  /\ pc = "proofOfWork"
  /\ ~proofOfWorkCondition(heap[arg], curDifficulty)
  /\ pc' = "idle"
  /\ lastOp' = "proofOfWork"
  /\ UNCHANGED << heap, blockchain, difficulty, curDifficulty,
                  arg, result, preTailHash, preLength, pre, fresh, onlyFresh,
                  noAlias, tamper >>

\* The block put at the front of the chain instead of the end.
AddNewBlockPush_Unshift ==
  /\ pc = "addNewBlock"
  /\ ~proofOfWorkCondition(heap[arg], curDifficulty)
  /\ blockchain' = << arg >> \o blockchain
  /\ pc' = "idle"
  /\ lastOp' = "addNewBlock"
  /\ UNCHANGED << heap, difficulty, curDifficulty, arg,
                  result, preTailHash, preLength, pre, fresh, onlyFresh, noAlias,
                  tamper >>

\* proofOfWork called by addNewBlock returns; the block is pushed.
AddNewBlockPush ==
  /\ pc = "addNewBlock"
  /\ ~proofOfWorkCondition(heap[arg], curDifficulty)
  /\ blockchain' = Append(blockchain, arg)
  /\ pc' = "idle"
  /\ lastOp' = "addNewBlock"
  /\ UNCHANGED << heap, difficulty, curDifficulty, arg,
                  result, preTailHash, preLength, pre, fresh, onlyFresh, noAlias,
                  tamper >>

\* The scan assigning the recomputed hash where it should compare it.
CheckChainValidity_Repairing ==
  /\ pc = "idle"
  /\ heap' = [i \in DOMAIN heap |->
               IF \E j \in 2..Len(blockchain) : blockchain[j] = i
               THEN [heap[i] EXCEPT !.hash = computeHash(heap[i])]
               ELSE heap[i]]
  /\ result' = IF checkChainValidity(heap', blockchain) THEN "true" ELSE "false"
  /\ lastOp' = "checkChainValidity"
  /\ UNCHANGED << blockchain, difficulty, pc,
                  curDifficulty, arg, preTailHash, preLength, pre, fresh,
                  onlyFresh, noAlias, tamper >>

CheckChainValidity ==
  /\ pc = "idle"
  /\ result' = IF checkChainValidity(heap, blockchain) THEN "true" ELSE "false"
  /\ lastOp' = "checkChainValidity"
  /\ UNCHANGED << heap, blockchain, difficulty, pc,
                  curDifficulty, arg, preTailHash, preLength, pre, fresh,
                  onlyFresh, noAlias, tamper >>

\* The values the caller writes when it changes a field in place.
TamperedBlocks(b) ==
  { [b EXCEPT !.index = b.index + 1],
    [b EXCEPT !.timestamp = TamperTimestamp],
    [b EXCEPT !.data = << "C" >>],
    [b EXCEPT !.precedingHash = DefaultPrecedingHash],
    [b EXCEPT !.nonce = b.nonce + 1],
    [b EXCEPT !.hash = IF b.hash = Digest(0) THEN Digest(1) ELSE Digest(0)] }

\* The caller changes one field of a block of the chain after genesis, in
\* place, and recomputes nothing.
TamperField ==
  /\ pc = "idle" /\ tamper = "none"
  /\ \E i \in 2..Len(blockchain) :
       \E b \in TamperedBlocks(heap[blockchain[i]]) :
         /\ heap' = [heap EXCEPT ![blockchain[i]] = b]
         /\ arg' = blockchain[i]
         /\ pre' = heap[blockchain[i]]
  /\ tamper' = "field"
  /\ lastOp' = "tamper"
  /\ result' = "none"
  /\ UNCHANGED << blockchain, difficulty, pc, curDifficulty,
                  preTailHash, preLength, fresh, onlyFresh, noAlias >>

\* The caller changes the data of a block that has a successor and sets that
\* block's hash to computeHash().
TamperRehash ==
  /\ pc = "idle" /\ tamper = "none"
  /\ \E i \in 1..(Len(blockchain) - 1) :
       LET b1 == [heap[blockchain[i]] EXCEPT !.data = << "C" >>]
       IN  /\ heap' = [heap EXCEPT ![blockchain[i]] =
                                     [b1 EXCEPT !.hash = computeHash(b1)]]
           /\ arg' = blockchain[i]
           /\ pre' = heap[blockchain[i]]
  /\ tamper' = "rehash"
  /\ lastOp' = "tamper"
  /\ result' = "none"
  /\ UNCHANGED << blockchain, difficulty, pc, curDifficulty,
                  preTailHash, preLength, fresh, onlyFresh, noAlias >>

Next ==
  \/ NewCryptoBlock
  \/ AddNewBlock
  \/ ProofOfWork
  \/ ProofOfWorkStep
  \/ ProofOfWorkReturn
  \/ AddNewBlockPush
  \/ CheckChainValidity
  \/ TamperField
  \/ TamperRehash

Spec == Init /\ [][Next]_vars

\* Two blocks the caller constructs with a precedingHash of its choice, and
\* calls proofOfWork on.
EncIndexes == {1, 11}
EncPrecedingHashes == { << "0" >>, << "1", "0" >>, DefaultPrecedingHash }

EncBlocks ==
  { CryptoBlock(index, timestamp, data, precedingHash) :
      index \in EncIndexes, timestamp \in Timestamps, data \in Datas,
      precedingHash \in EncPrecedingHashes }

EncInit ==
  /\ heap \in { << startGenesisBlock, x, y >> : x \in EncBlocks,
                                                y \in EncBlocks }
  /\ blockchain = << 1 >>
  /\ difficulty = ConstructedDifficulty
  /\ pc = "idle"
  /\ curDifficulty = 0
  /\ lastOp = "CryptoBlock"
  /\ arg = 3
  /\ result = "none"
  /\ preTailHash = << >>
  /\ preLength = 0
  /\ pre = heap[3]
  /\ fresh = {2, 3}
  /\ onlyFresh = TRUE
  /\ noAlias = TRUE
  /\ tamper = "none"

EncNext == ProofOfWork \/ ProofOfWorkStep \/ ProofOfWorkReturn

EncSpec == EncInit /\ [][EncNext]_vars

\* Construction, appending and mining alone.  proofOfWork is a synchronous
\* loop on the only thread: an iteration, or the return, that can be taken is
\* taken.
MiningNext ==
  \/ NewCryptoBlock
  \/ AddNewBlock
  \/ ProofOfWork
  \/ ProofOfWorkStep
  \/ ProofOfWorkReturn
  \/ AddNewBlockPush

\* The steps of a running proofOfWork and of the addNewBlock that called it.
Mining == ProofOfWorkStep \/ ProofOfWorkReturn \/ AddNewBlockPush

FairSpec == Init /\ [][MiningNext]_vars /\ WF_vars(Mining)

\* ------------------------------------------------------------------ claims
\* blocks[i].precedingHash = blocks[i-1].hash at every position after genesis.
Linked ==
  \A i \in 2..Len(blockchain) :
    heap[blockchain[i]].precedingHash = heap[blockchain[i - 1]].hash

\* The first d characters of s are all "0".
LeadingZeros(s, d) ==
  \E t \in {s} : Len(t) >= d /\ \A i \in 1..d : t[i] = "0"

\* C1: once addNewBlock(b) has returned, the stored b.hash equals
\* computeHash() over b's current fields.
C1_HashSelfConsistent ==
  lastOp = "addNewBlock" => heap[arg].hash = computeHash(heap[arg])

\* C2 as stated: after any sequence of addNewBlock calls with any block
\* arguments, every block after genesis holds its predecessor's hash.
C2_LinkedAnyArgument ==
  (tamper = "none" /\ pc = "idle") => Linked

\* C2 amended: after any sequence of addNewBlock calls whose arguments are not
\* already members of the chain, every block after genesis holds its
\* predecessor's hash.
C2_LinkedNoAlias ==
  (tamper = "none" /\ noAlias) => Linked

C2_Witness ==
  /\ tamper = "none" /\ noAlias /\ pc = "idle"
  /\ Len(blockchain) = 3
  /\ heap[blockchain[2]].hash # heap[blockchain[1]].hash

\* C3: a chain built only by appending freshly constructed blocks validates:
\* checkChainValidity() returns true (and each append added one block).
C3_UntamperedValidates ==
  (lastOp = "checkChainValidity" /\ tamper = "none" /\ onlyFresh
     /\ Len(blockchain) >= 2)
  => (result = "true" /\ Len(blockchain) = preLength + 1)

\* C4: when addNewBlock(b) returns, the latest block is b, b.precedingHash is
\* the hash the tail had when the call was made, and the chain is one longer.
C4_AddPostcondition ==
  lastOp = "addNewBlock" =>
    /\ obtainLatestBlock(blockchain) = arg
    /\ heap[obtainLatestBlock(blockchain)].hash = heap[arg].hash
    /\ heap[arg].precedingHash = preTailHash
    /\ Len(blockchain) = preLength + 1

C4_Witness ==
  /\ lastOp = "addNewBlock"
  /\ Len(blockchain) = 3
  /\ heap[arg].nonce > 0

\* C5: whenever proofOfWork(d) returns, the first d characters of the
\* block's stored hash are all "0".
C5_LeadingZeros ==
  lastOp \in {"proofOfWork", "addNewBlock"} =>
    LeadingZeros(heap[arg].hash, curDifficulty)

C5_Witness ==
  /\ lastOp = "proofOfWork"
  /\ curDifficulty > 0
  /\ heap[arg].nonce > 0

\* C6: after one field of a block after genesis was changed in place with
\* nothing recomputed, checkChainValidity() returns false.
C6_TamperDetected ==
  (lastOp = "checkChainValidity" /\ tamper = "field") => result = "false"

C6_Witness ==
  /\ lastOp = "checkChainValidity" /\ tamper = "field"
  /\ onlyFresh /\ Len(blockchain) = 3

\* C7: after the data of a block with a successor was changed and only that
\* block's hash recomputed, checkChainValidity() returns false.
C7_RehashDetected ==
  (lastOp = "checkChainValidity" /\ tamper = "rehash") => result = "false"

C7_Witness ==
  /\ lastOp = "checkChainValidity" /\ tamper = "rehash"
  /\ onlyFresh /\ arg # 1
  /\ heap[arg].hash = computeHash(heap[arg])

\* C8: a constructed block, the genesis block included, has nonce 0 and a
\* stored hash equal to computeHash() of that block.
C8_Construction ==
  /\ lastOp = "CryptoBlock" =>
       (heap[arg].nonce = 0 /\ heap[arg].hash = computeHash(heap[arg]))
  /\ lastOp = "CryptoBlockchain" =>
       (heap[1].nonce = 0 /\ heap[1].hash = computeHash(heap[1]))

\* C9: the chain's difficulty is the argument it was constructed with, it
\* never changes, and addNewBlock mines against exactly that value.
C9_DifficultyFromConstruction ==
  /\ difficulty = DifficultyArgument
  /\ pc = "addNewBlock" => curDifficulty = DifficultyArgument

\* C10: on a chain holding only the genesis block, checkChainValidity()
\* returns true.
C10_FreshChainValid ==
  (lastOp = "checkChainValidity" /\ Len(blockchain) = 1) => result = "true"

C10_Witness ==
  lastOp = "checkChainValidity" /\ Len(blockchain) = 1 /\ preLength = 0

\* C11: checkChainValidity changes no field of any block, nor the chain's
\* length, order or difficulty, and the value it returned is the value the
\* scan of the chain as it stands gives again.
C11_ReadOnlyRepeatable ==
  /\ [][lastOp' = "checkChainValidity" =>
          (heap' = heap /\ blockchain' = blockchain
             /\ difficulty' = difficulty)]_vars
  /\ [](lastOp = "checkChainValidity" =>
          result = IF checkChainValidity(heap, blockchain)
                   THEN "true" ELSE "false")

C11_Witness ==
  /\ lastOp = "checkChainValidity" /\ result = "false"
  /\ tamper = "none" /\ Len(blockchain) = 3

\* Position 0 holds the genesis block and the latest block is the element at
\* the last position.
GenesisFirst ==
  /\ Len(blockchain) >= 1
  /\ heap[blockchain[1]].index = 0
  /\ heap[blockchain[1]].precedingHash = << "0" >>
  /\ heap[blockchain[1]].nonce = 0
  /\ obtainLatestBlock(blockchain) = blockchain[Len(blockchain)]
  /\ obtainLatestBlock(blockchain) \in 1..Len(heap)

\* C12 as stated: after any sequence of addNewBlock and checkChainValidity
\* calls the chain is not empty, position 0 holds the genesis block (index 0,
\* precedingHash "0", nonce 0) and obtainLatestBlock() is the last element.
C12_GenesisFirstAnyArgument ==
  (tamper = "none" /\ pc = "idle") => GenesisFirst

\* C12 amended: the same, when no addNewBlock was given a block that is
\* already a member of the chain.
C12_GenesisFirstNoAlias ==
  (tamper = "none" /\ noAlias) => GenesisFirst

C12_Witness ==
  /\ tamper = "none" /\ noAlias /\ Len(blockchain) = 3
  /\ lastOp = "checkChainValidity"

\* The hash of block b's fields with nonce n.
HashWithNonce(b, n) == computeHash([b EXCEPT !.nonce = n])

\* The block on which the proofOfWork of the running or last operation was
\* started: for addNewBlock, the argument with precedingHash already set.
MiningStart ==
  IF pc = "addNewBlock" \/ lastOp = "addNewBlock"
  THEN [pre EXCEPT !.precedingHash = preTailHash]
  ELSE pre

\* C13: proofOfWork(d) leaves nonce and hash alone if the stored hash has d
\* leading zeros; otherwise it returns with the smallest nonce above the
\* starting one whose hash has d leading zeros, and with that hash; every
\* iteration adds 1 to the nonce and recomputes the hash, and no other field
\* changes.
C13_SearchOrder ==
  /\ [](lastOp \in {"proofOfWork", "addNewBlock"} =>
          LET b0 == MiningStart
              b == heap[arg]
          IN  /\ b = [b0 EXCEPT !.nonce = b.nonce, !.hash = b.hash]
              /\ IF LeadingZeros(b0.hash, curDifficulty)
                 THEN b.nonce = b0.nonce /\ b.hash = b0.hash
                 ELSE /\ b.nonce > b0.nonce
                      /\ b.hash = HashWithNonce(b0, b.nonce)
                      /\ LeadingZeros(b.hash, curDifficulty)
                      /\ \A n \in (b0.nonce + 1)..(b.nonce - 1) :
                           ~LeadingZeros(HashWithNonce(b0, n), curDifficulty))
  /\ [][(pc # "idle" /\ pc' = pc /\ heap' # heap) =>
          /\ heap'[arg].nonce = heap[arg].nonce + 1
          /\ heap'[arg].hash = computeHash(heap'[arg])
          /\ heap' = [heap EXCEPT ![arg] = 
                        [heap[arg] EXCEPT !.nonce = heap'[arg].nonce,
                                          !.hash = heap'[arg].hash]]]_vars

C13_Witness ==
  /\ lastOp = "addNewBlock"
  /\ pre.nonce > 0
  /\ ~LeadingZeros(pre.hash, curDifficulty)
  /\ heap[arg].nonce > pre.nonce + 1

\* The stored hash of b has d leading zeros, or the hash for some nonce above
\* b's, among those the loop is followed to, has.
Minable(b, d) ==
  \/ LeadingZeros(b.hash, d)
  \/ \E n \in (b.nonce + 1)..MaxNonce : LeadingZeros(HashWithNonce(b, n), d)

\* C14: when the hash takes a value with d leading zeros for some nonce above
\* the starting one, proofOfWork(d) eventually returns, and an addNewBlock
\* that called it eventually appends its block.
C14_MiningTerminates ==
  (pc # "idle" /\ Minable(heap[arg], curDifficulty))
    ~> (/\ pc = "idle"
        /\ lastOp \in {"proofOfWork", "addNewBlock"}
        /\ lastOp = "addNewBlock" => blockchain[Len(blockchain)] = arg)

C14_Witness ==
  /\ lastOp = "addNewBlock"
  /\ blockchain[Len(blockchain)] = arg
  /\ heap[arg].nonce > pre.nonce + 2

\* Some block after genesis carries an index that is not its position.
IndexesOutOfOrder ==
  \E i \in 2..Len(blockchain) : heap[blockchain[i]].index # i - 1

\* C15: addNewBlock appends a block whose index is duplicate, non-monotonic
\* or non-contiguous like any other, and a later checkChainValidity() on
\* that chain returns false.
C15_BadIndexAcceptedThenInvalid ==
  /\ (lastOp = "addNewBlock" /\ heap[arg].index # preLength) =>
       (blockchain[Len(blockchain)] = arg
          /\ Len(blockchain) = preLength + 1)
  /\ (lastOp = "checkChainValidity" /\ tamper = "none"
        /\ IndexesOutOfOrder) => result = "false"

C15_Witness ==
  /\ lastOp = "checkChainValidity" /\ tamper = "none"
  /\ onlyFresh /\ noAlias /\ Len(blockchain) = 3
  /\ heap[blockchain[2]].index = 2
  /\ heap[blockchain[3]].index = 2

\* Every block of the chain keeps its position and all its fields in a step.
ChainKept ==
  /\ Len(blockchain') >= Len(blockchain)
  /\ \A i \in 1..Len(blockchain) :
       /\ blockchain'[i] = blockchain[i]
       /\ heap'[blockchain[i]] = heap[blockchain[i]]

\* C16 as stated: addNewBlock(b), for any b including a member of the chain,
\* removes and reorders nothing and leaves every field of every block
\* already in the chain unchanged.
C16_ChainKeptAnyArgument ==
  [][tamper' = "none" => ChainKept]_vars

\* C16 amended: the same for any b that is not already a member of the
\* chain.
C16_ChainKeptNoAlias ==
  [][(tamper' = "none" /\ noAlias') => ChainKept]_vars

C16_Witness ==
  /\ lastOp = "addNewBlock" /\ noAlias /\ tamper = "none"
  /\ Len(blockchain) = 3
  /\ heap[arg].nonce > 0

\* C17: addNewBlock(b) leaves b.index, b.timestamp and b.data as they were
\* before the call, and the chain's difficulty is never changed.
C17_AddChangesOnlyLinkAndMining ==
  /\ []((pc = "addNewBlock" \/ lastOp = "addNewBlock") =>
          /\ heap[arg].index = pre.index
          /\ heap[arg].timestamp = pre.timestamp
          /\ heap[arg].data = pre.data)
  /\ [][difficulty' = difficulty]_vars

C17_Witness ==
  /\ lastOp = "addNewBlock"
  /\ heap[arg].precedingHash # pre.precedingHash
  /\ heap[arg].nonce > pre.nonce
  /\ heap[arg].hash # pre.hash

\* A call is running for which no followed nonce gives a qualifying hash; a
\* difficulty above the length of the digest is such a case.
Blocked == pc # "idle" /\ ~Minable(heap[arg], curDifficulty)

GenesisVariants(g) ==
  {b \in TamperedBlocks(g) : b.hash = g.hash}
    \cup {[g EXCEPT !.index = g.index + 1, !.timestamp = TamperTimestamp,
                    !.data = << "C" >>,
                    !.precedingHash = DefaultPrecedingHash,
                    !.nonce = g.nonce + 1]}

FieldTuple(b) ==
  << b.index, b.precedingHash, b.timestamp, JSONstringify(b.data), b.nonce >>

\* C20: two blocks whose tuples (index, precedingHash, timestamp, serialized
\* data, nonce) differ in at least one component give computeHash different
\* strings to hash.
C20_DistinctTuplesDistinctInputs ==
  FieldTuple(heap[2]) # FieldTuple(heap[3])
    => hashInput(heap[2]) # hashInput(heap[3])
====
